---- MODULE Spec2Model ----
(***************************************************************************)
(* A model of exr_reader.py: the channel-string parser                     *)
(* (OpenEXRReader._parse_channel_string), the channel loader               *)
(* (OpenEXRReader._load_channels) and the session protocol                 *)
(* (__post_init__, __enter__, the with-body, __exit__).                    *)
(*                                                                         *)
(* A channel string is a sequence of one-character strings; selectors,     *)
(* layer paths and keys are strings built with \o, as the code builds them *)
(* with + and +=.  The empty string "" is Python's falsy string.           *)
(***************************************************************************)
EXTENDS Naturals, Sequences, FiniteSets, TLC

(***************************************************************************)
(* Bounds of the model.                                                    *)
(***************************************************************************)
\* Longest channel string enumerated for the parser alone.
MaxLen == 3
\* Longest channel string enumerated for whole sessions.
SessLen == 1
\* How many times one reader object is entered.
MaxSessions == 2
\* How many direct _load_channels calls are made inside one with-body.
MaxBodyLoads == 1
\* Pixels of the raster fixtures.
Pixels == 1

(***************************************************************************)
(* Alphabets.                                                              *)
(***************************************************************************)
\* The codes of lines 137-150.
SingleCodes == {"c", "i", "r", "g", "b", "a", "d"}

\* self.two_char_expr_starts = 'nf' (line 83); `char in 'nf'` for one char.
two_char_expr_starts == {"n", "f"}

\* The characters tested by lines 161-168.
SuffixChars == {"x", "y", "z", "w"}

\* A character that no test of the scan loop names.
OtherChars == {"q"}

Alphabet == SingleCodes \cup two_char_expr_starts \cup SuffixChars \cup OtherChars

\* All sequences over S of length 0..n.
RECURSIVE SeqsUpTo(_, _)
SeqsUpTo(S, n) ==
    IF n = 0 THEN {<<>>}
    ELSE LET shorter == SeqsUpTo(S, n - 1)
         IN  shorter \cup {Append(s, ch) : s \in {t \in shorter : Len(t) = n - 1}, ch \in S}

\* Longer channel strings that the length bounds would leave out: 'rgb' of
\* the class docstring (line 64) and strings of its codes (lines 44-59).
SampleStrings ==
    { <<"r", "g", "b">>,
      <<"r", "g", "b", "d">>,
      <<"n", "x">>,
      <<"n", "x", "n", "y">>,
      <<"r", "r">>,
      <<"d", "n", "z">>,
      <<"n", "q">>,
      <<"f", "x", "f", "y">> }

ParserInputs == SeqsUpTo(Alphabet, MaxLen) \cup SampleStrings

SessionInputs == SeqsUpTo(Alphabet, SessLen) \cup SampleStrings

\* view_layer_name: the default of line 76, and another caller-given name.
ViewLayerNames == {"BAT_ViewLayer", "VL"}

(***************************************************************************)
(* The parser's pure steps.                                                *)
(***************************************************************************)
\* Lines 137-154: the nine `if char == ...` statements; sel is
\* channel_selector before them, the result is channel_selector after.
MapCharSwapRG(char, sel) ==
    CASE char = "c" -> ".IndexOB.X"
      [] char = "i" -> ".IndexMA.X"
      [] char = "r" -> ".Combined.G"
      [] char = "g" -> ".Combined.R"
      [] char = "b" -> ".Combined.B"
      [] char = "a" -> ".Combined.A"
      [] char = "d" -> ".Depth.Z"
      [] char = "n" -> ".Normal"
      [] char = "f" -> ".Vector"
      [] OTHER -> sel

MapChar(char, sel) ==
    CASE char = "c" -> ".IndexOB.X"
      [] char = "i" -> ".IndexMA.X"
      [] char = "r" -> ".Combined.R"
      [] char = "g" -> ".Combined.G"
      [] char = "b" -> ".Combined.B"
      [] char = "a" -> ".Combined.A"
      [] char = "d" -> ".Depth.Z"
      [] char = "n" -> ".Normal"
      [] char = "f" -> ".Vector"
      [] OTHER -> sel

\* Lines 161-168: the four `if char == ...: channel_selector += ...`.
AppendComponentAsTyped(char, sel) ==
    CASE char \in SuffixChars -> sel \o "." \o char
      [] OTHER -> sel

AppendComponent(char, sel) ==
    CASE char = "x" -> sel \o ".X"
      [] char = "y" -> sel \o ".Y"
      [] char = "z" -> sel \o ".Z"
      [] char = "w" -> sel \o ".W"
      [] OTHER -> sel

\* The scanner's locals (lines 130-133), with at, the input position of each
\* append (a history of lines 170-171 and 176-177).
ScanStart ==
    [ char_store |-> "", channel_selector |-> "",
      channel_names |-> <<>>, channel_keys |-> <<>>, at |-> <<>> ]

\* A variant of the loop body that holds a single-character code back until
\* the next character is read and keys it by that character.
ScanStepLate(s, char, pos) ==
    LET sel == MapChar(char, s.channel_selector)
    IN  IF char \in two_char_expr_starts
        THEN [s EXCEPT !.channel_selector = sel, !.char_store = char]
        ELSE IF s.char_store # ""
        THEN [s EXCEPT !.channel_names = Append(@, AppendComponent(char, sel)),
                       !.channel_keys = Append(@, s.char_store \o char),
                       !.at = Append(@, pos),
                       !.channel_selector = "",
                       !.char_store = ""]
        ELSE IF s.channel_selector # ""
        THEN [s EXCEPT !.channel_names = Append(@, s.channel_selector),
                       !.channel_keys = Append(@, char),
                       !.at = Append(@, pos),
                       !.channel_selector = IF char \in SingleCodes THEN sel ELSE ""]
        ELSE [s EXCEPT !.channel_selector = sel]

\* A variant of the loop body that appends for a pending prefix only when
\* the character is one of x, y, z, w.
ScanStepStrict(s, char, pos) ==
    LET sel == MapChar(char, s.channel_selector)
    IN  IF char \in two_char_expr_starts
        THEN [s EXCEPT !.channel_selector = sel, !.char_store = char]
        ELSE IF s.char_store # ""
        THEN IF char \in SuffixChars
             THEN [s EXCEPT !.channel_names = Append(@, AppendComponent(char, sel)),
                            !.channel_keys = Append(@, s.char_store \o char),
                            !.at = Append(@, pos),
                            !.channel_selector = "",
                            !.char_store = ""]
             ELSE [s EXCEPT !.channel_selector = "", !.char_store = ""]
        ELSE IF sel # "" /\ s.char_store = ""
        THEN [s EXCEPT !.channel_names = Append(@, sel),
                       !.channel_keys = Append(@, char),
                       !.at = Append(@, pos),
                       !.channel_selector = "",
                       !.char_store = ""]
        ELSE [s EXCEPT !.channel_selector = sel]

\* A variant of the loop body that appends the bare group of a pending prefix
\* when another prefix character overwrites it.
ScanStepFlush(s, char, pos) ==
    LET sel == MapChar(char, s.channel_selector)
    IN  IF char \in two_char_expr_starts
        THEN IF s.char_store # ""
             THEN [s EXCEPT !.channel_names = Append(@, s.channel_selector),
                            !.channel_keys = Append(@, s.char_store),
                            !.at = Append(@, pos),
                            !.channel_selector = sel,
                            !.char_store = char]
             ELSE [s EXCEPT !.channel_selector = sel, !.char_store = char]
        ELSE IF s.char_store # ""
        THEN [s EXCEPT !.channel_names = Append(@, AppendComponent(char, sel)),
                       !.channel_keys = Append(@, s.char_store \o char),
                       !.at = Append(@, pos),
                       !.channel_selector = "",
                       !.char_store = ""]
        ELSE IF sel # "" /\ s.char_store = ""
        THEN [s EXCEPT !.channel_names = Append(@, sel),
                       !.channel_keys = Append(@, char),
                       !.at = Append(@, pos),
                       !.channel_selector = "",
                       !.char_store = ""]
        ELSE [s EXCEPT !.channel_selector = sel]

\* A variant of the loop body that appends a pair only when its key is not
\* in channel_keys yet.
ScanStepDedup(s, char, pos) ==
    LET sel == MapChar(char, s.channel_selector)
        Seen(key) == \E k \in 1..Len(s.channel_keys) : s.channel_keys[k] = key
    IN  IF char \in two_char_expr_starts
        THEN [s EXCEPT !.channel_selector = sel, !.char_store = char]
        ELSE IF s.char_store # ""
        THEN IF Seen(s.char_store \o char)
             THEN [s EXCEPT !.channel_selector = "", !.char_store = ""]
             ELSE [s EXCEPT !.channel_names = Append(@, AppendComponent(char, sel)),
                            !.channel_keys = Append(@, s.char_store \o char),
                            !.at = Append(@, pos),
                            !.channel_selector = "",
                            !.char_store = ""]
        ELSE IF sel # "" /\ s.char_store = ""
        THEN IF Seen(char)
             THEN [s EXCEPT !.channel_selector = "", !.char_store = ""]
             ELSE [s EXCEPT !.channel_names = Append(@, sel),
                            !.channel_keys = Append(@, char),
                            !.at = Append(@, pos),
                            !.channel_selector = "",
                            !.char_store = ""]
        ELSE [s EXCEPT !.channel_selector = sel]

\* A variant of the loop body without line 172: the selector of a finished
\* two-character expression is not cleared.
ScanStepKeepSelector(s, char, pos) ==
    LET sel == MapChar(char, s.channel_selector)
    IN  IF char \in two_char_expr_starts
        THEN [s EXCEPT !.channel_selector = sel, !.char_store = char]
        ELSE IF s.char_store # ""
        THEN [s EXCEPT !.channel_names = Append(@, AppendComponent(char, sel)),
                       !.channel_keys = Append(@, s.char_store \o char),
                       !.at = Append(@, pos),
                       !.channel_selector = AppendComponent(char, sel),
                       !.char_store = ""]
        ELSE IF sel # "" /\ s.char_store = ""
        THEN [s EXCEPT !.channel_names = Append(@, sel),
                       !.channel_keys = Append(@, char),
                       !.at = Append(@, pos),
                       !.channel_selector = "",
                       !.char_store = ""]
        ELSE [s EXCEPT !.channel_selector = sel]

\* A variant of the loop body whose test of line 157 also asks that no
\* prefix is pending: a second prefix character finishes the first.
ScanStepKeepFirst(s, char, pos) ==
    LET sel == MapChar(char, s.channel_selector)
    IN  IF char \in two_char_expr_starts /\ s.char_store = ""
        THEN [s EXCEPT !.channel_selector = sel, !.char_store = char]
        ELSE IF s.char_store # ""
        THEN [s EXCEPT !.channel_names = Append(@, AppendComponent(char, sel)),
                       !.channel_keys = Append(@, s.char_store \o char),
                       !.at = Append(@, pos),
                       !.channel_selector = "",
                       !.char_store = ""]
        ELSE IF sel # "" /\ s.char_store = ""
        THEN [s EXCEPT !.channel_names = Append(@, sel),
                       !.channel_keys = Append(@, char),
                       !.at = Append(@, pos),
                       !.channel_selector = "",
                       !.char_store = ""]
        ELSE [s EXCEPT !.channel_selector = sel]

\* A variant of the loop body without line 171: a finished two-character
\* expression appends its name and no key.
ScanStepNoKey(s, char, pos) ==
    LET sel == MapChar(char, s.channel_selector)
    IN  IF char \in two_char_expr_starts
        THEN [s EXCEPT !.channel_selector = sel, !.char_store = char]
        ELSE IF s.char_store # ""
        THEN [s EXCEPT !.channel_names = Append(@, AppendComponent(char, sel)),
                       !.at = Append(@, pos),
                       !.channel_selector = "",
                       !.char_store = ""]
        ELSE IF sel # "" /\ s.char_store = ""
        THEN [s EXCEPT !.channel_names = Append(@, sel),
                       !.channel_keys = Append(@, char),
                       !.at = Append(@, pos),
                       !.channel_selector = "",
                       !.char_store = ""]
        ELSE [s EXCEPT !.channel_selector = sel]

\* Lines 136-179: one iteration of `for char in channel_string`, on the
\* character char read at input position pos.
ScanStep(s, char, pos) ==
    LET sel == MapChar(char, s.channel_selector)
    IN  IF char \in two_char_expr_starts
        THEN [s EXCEPT !.channel_selector = sel, !.char_store = char]
        ELSE IF s.char_store # ""
        THEN [s EXCEPT !.channel_names = Append(@, AppendComponent(char, sel)),
                       !.channel_keys = Append(@, s.char_store \o char),
                       !.at = Append(@, pos),
                       !.channel_selector = "",
                       !.char_store = ""]
        ELSE IF sel # "" /\ s.char_store = ""
        THEN [s EXCEPT !.channel_names = Append(@, sel),
                       !.channel_keys = Append(@, char),
                       !.at = Append(@, pos),
                       !.channel_selector = "",
                       !.char_store = ""]
        ELSE [s EXCEPT !.channel_selector = sel]

\* Line 181: [self.view_layer_name + c for c in channel_names].
PrefixAll(prefix, names) == [k \in 1..Len(names) |-> prefix \o names[k]]

(***************************************************************************)
(* The raster file and the OpenEXR.InputFile handle (the library the code  *)
(* calls at lines 93, 117 and 196).                                        *)
(***************************************************************************)
\* Every selector the parser can build for a documented code.
LayerSelectors ==
    { ".IndexOB.X", ".IndexMA.X", ".Combined.R", ".Combined.G", ".Combined.B",
      ".Combined.A", ".Depth.Z", ".Normal.X", ".Normal.Y", ".Normal.Z",
      ".Vector.X", ".Vector.Y", ".Vector.Z", ".Vector.W" }

\* The files a session is run on: one with every layer of either view layer,
\* one rendered with the colour pass only, and a path with no file.
Rasters == {"full", "colour", "nofile"}

RasterLayers(r) ==
    CASE r = "full" -> {p \o s : p \in ViewLayerNames, s \in LayerSelectors}
      [] r = "colour" -> {"BAT_ViewLayer" \o s :
                            s \in {".Combined.R", ".Combined.G", ".Combined.B", ".Combined.A"}}
      [] OTHER -> {}

\* The order of the layers in the fixtures' data.
LayerOrder ==
    << ".IndexOB.X", ".IndexMA.X", ".Combined.R", ".Combined.G", ".Combined.B",
       ".Combined.A", ".Depth.Z", ".Normal.X", ".Normal.Y", ".Normal.Z",
       ".Vector.X", ".Vector.Y", ".Vector.Z", ".Vector.W" >>

LayerNumber(name) ==
    CHOOSE k \in 1..Len(LayerOrder) : \E p \in ViewLayerNames : name = p \o LayerOrder[k]

\* The bytes InputFile.channels returns for one layer: four bytes (one
\* 32-bit float) per pixel, different for every layer and pixel.
RasterBytes(name) ==
    [b \in 1..(4 * Pixels) |->
        CASE b % 4 = 1 -> LayerNumber(name)
          [] b % 4 = 2 -> (b + 3) \div 4
          [] OTHER -> 0]

\* array('f', channel) and frombuffer(channel, dtype=float32): every four
\* bytes make one little-endian 32-bit item.
FloatItems(bytes) ==
    [k \in 1..(Len(bytes) \div 4) |->
        bytes[4 * k - 3] + 256 * bytes[4 * k - 2]
        + 65536 * bytes[4 * k - 1] + 16777216 * bytes[4 * k]]

\* Lines 199-202: a Python list without a loader, the loader's array with one.
ConvertIgnoringLoader(loader, bytes) ==
    [kind |-> "list", items |-> FloatItems(bytes)]

Convert(loader, bytes) ==
    IF loader = "None"
    THEN [kind |-> "list", items |-> FloatItems(bytes)]
    ELSE [kind |-> "ndarray", items |-> FloatItems(bytes)]

\* InputFile.channels(names) (line 196): raises on a closed file and when a
\* name is not a channel of the file, else one buffer per name, in order.
ReadChannels(handle, raster, names) ==
    IF handle # "open"
    THEN [error |-> "ClosedFile", buffers |-> <<>>]
    ELSE IF \E k \in 1..Len(names) : names[k] \notin RasterLayers(raster)
    THEN [error |-> "MissingChannel", buffers |-> <<>>]
    ELSE [error |-> "none", buffers |-> [k \in 1..Len(names) |-> RasterBytes(names[k])]]

\* InputFile.close() (line 117).
CloseHandle(handle) == "closed"

\* What InputFile.close() raises: nothing, on an open handle and on a closed
\* one alike.
CloseErrorWhenClosed(handle) == IF handle = "closed" THEN "CloseError" ELSE "none"

CloseError(handle) == "none"

(***************************************************************************)
(* The loader.                                                             *)
(***************************************************************************)
\* self.channels = {} (line 82).
EmptyChannels == [k \in {} |-> <<>>]

\* self.channels[channel_key] = value (lines 200, 202).
Store(m, key, value) ==
    [k \in (DOMAIN m) \cup {key} |-> IF k = key THEN value ELSE m[k]]

\* Line 193: [c for c in channel_names if c not in self.channels].
\* A variant of the filter that takes the first name for loaded.
NotLoadedDropFirst(m, names, keys) ==
    IF names = <<>> THEN <<>> ELSE Tail(names)

NotLoaded(m, names, keys) ==
    LET RECURSIVE Pick(_)
        Pick(k) ==
            IF k > Len(names) THEN <<>>
            ELSE IF names[k] \in DOMAIN m
            THEN Pick(k + 1)
            ELSE <<names[k]>> \o Pick(k + 1)
    IN  Pick(1)

\* Lines 198-202: for channel, channel_key in zip(channels, channel_keys).
RECURSIVE StoreAll(_, _, _, _, _)
StoreAll(m, loader, buffers, keys, k) ==
    IF k > Len(buffers) \/ k > Len(keys) THEN m
    ELSE StoreAll(Store(m, keys[k], Convert(loader, buffers[k])),
                  loader, buffers, keys, k + 1)

\* A variant of the read that fetches the layers one at a time and keeps
\* what it has stored when a later layer is missing.
RECURSIVE StoreEachUntilMissing(_, _, _, _, _, _)
StoreEachUntilMissing(m, loader, raster, names, keys, k) ==
    IF k > Len(names) \/ k > Len(keys) \/ names[k] \notin RasterLayers(raster) THEN m
    ELSE StoreEachUntilMissing(Store(m, keys[k], Convert(loader, RasterBytes(names[k]))),
                               loader, raster, names, keys, k + 1)

LoadChannelsPartial(m, loader, handle, raster, names, keys) ==
    LET wanted == NotLoaded(m, names, keys)
        got == ReadChannels(handle, raster, wanted)
    IN  IF wanted = <<>>
        THEN [channels |-> m, error |-> "none", reads |-> 0]
        ELSE IF got.error = "MissingChannel"
        THEN [channels |-> StoreEachUntilMissing(m, loader, raster, wanted, keys, 1),
              error |-> got.error, reads |-> 1]
        ELSE IF got.error # "none"
        THEN [channels |-> m, error |-> got.error, reads |-> 1]
        ELSE [channels |-> StoreAll(m, loader, got.buffers, keys, 1),
              error |-> "none", reads |-> 1]

\* Lines 185-202, _load_channels on the mapping m: the mapping it leaves,
\* the error it raises ("none": it returns) and how many times it called
\* inputfile.channels.
LoadChannels(m, loader, handle, raster, names, keys) ==
    LET wanted == NotLoaded(m, names, keys)
        got == ReadChannels(handle, raster, wanted)
    IN  IF wanted = <<>>
        THEN [channels |-> m, error |-> "none", reads |-> 0]
        ELSE IF got.error # "none"
        THEN [channels |-> m, error |-> got.error, reads |-> 1]
        ELSE [channels |-> StoreAll(m, loader, got.buffers, keys, 1),
              error |-> "none", reads |-> 1]

\* resolution: tuple = (1080,1920) (line 75).
Resolution == <<1080, 1920>>

\* Lines 99-111: the class built by OpenEXRMeta holds every item of
\* self.channels; the instance holds inputfile, channel_names, resolution.
MakeWrapperBeforeLoad(m, keys) ==
    [made |-> TRUE, attrs |-> EmptyChannels, channel_names |-> keys,
     resolution |-> <<1080, 1920>>]

MakeWrapper(m, keys) ==
    [made |-> TRUE, attrs |-> m, channel_names |-> keys, resolution |-> Resolution]

NoWrapper ==
    [made |-> FALSE, attrs |-> EmptyChannels, channel_names |-> <<>>, resolution |-> <<>>]

(***************************************************************************)
(* State.                                                                  *)
(***************************************************************************)
VARIABLES
    channel_string,      \* the constructor's channel_string (line 73)
    view_layer_name,     \* the constructor's view_layer_name (line 76)
    loader,              \* the constructor's loader (line 74)
    raster,              \* the file at filepath
    pc,                  \* where the program is
    idx,                 \* how many characters the scan loop has read
    scan,                \* the scanner's locals
    self_channel_names,  \* self.channel_names (line 86)
    self_channel_keys,   \* self.channel_keys (line 86)
    channels,            \* self.channels
    inputfile,           \* the handle self.inputfile is bound to
    wrapper,             \* what __enter__ returned
    error,               \* the exception that left the last with statement
    sessions,            \* how many times __enter__ was called
    body_loads,          \* direct _load_channels calls in this with-body
    body_closed,         \* this with-body has called inputfile.close() itself
    nloads,              \* calls of _load_channels
    nreads               \* calls of inputfile.channels

vars == << channel_string, view_layer_name, loader, raster, pc, idx, scan,
           self_channel_names, self_channel_keys, channels, inputfile,
           wrapper, error, sessions, body_loads, body_closed, nloads, nreads >>

inputs == << channel_string, view_layer_name, loader, raster >>

parsed == << idx, scan, self_channel_names, self_channel_keys >>

session == << channels, inputfile, wrapper, error, sessions, body_loads, body_closed,
              nloads, nreads >>

\* __post_init__ up to the call of line 86: self.channels = {} (line 82) and
\* the scanner's locals (lines 130-133).
Constructed ==
    /\ pc = "scan"
    /\ idx = 0
    /\ scan = ScanStart
    /\ self_channel_names = <<>>
    /\ self_channel_keys = <<>>
    /\ channels = EmptyChannels
    /\ inputfile = "unset"
    /\ wrapper = NoWrapper
    /\ error = "none"
    /\ sessions = 0
    /\ body_loads = 0
    /\ body_closed = FALSE
    /\ nloads = 0
    /\ nreads = 0

InitParse ==
    /\ channel_string \in ParserInputs
    /\ view_layer_name \in ViewLayerNames
    /\ loader = "None"
    /\ raster = "full"
    /\ Constructed

Init ==
    /\ channel_string \in SessionInputs
    /\ view_layer_name \in ViewLayerNames
    /\ loader \in {"None", "numpy"}
    /\ raster \in Rasters
    /\ Constructed

\* One iteration of the loop of line 135.
ScanChar ==
    /\ pc = "scan"
    /\ idx < Len(channel_string)
    /\ scan' = ScanStep(scan, channel_string[idx + 1], idx + 1)
    /\ idx' = idx + 1
    /\ UNCHANGED << inputs, pc, self_channel_names, self_channel_keys, session >>

\* Lines 181-182 and the assignment of line 86.
ParseReturn ==
    /\ pc = "scan"
    /\ idx = Len(channel_string)
    /\ self_channel_names' = PrefixAll(view_layer_name, scan.channel_names)
    /\ self_channel_keys' = scan.channel_keys
    /\ pc' = "constructed"
    /\ UNCHANGED << inputs, idx, scan, session >>

\* `with reader as exr:` reaching __enter__ (lines 89-111), on a new reader
\* or on one whose earlier with statement has ended.  An exception of
\* __enter__ leaves the with statement without a call of __exit__.
Enter ==
    /\ pc \in {"constructed", "exited"}
    /\ sessions < MaxSessions
    /\ sessions' = sessions + 1
    /\ body_loads' = 0
    /\ body_closed' = FALSE
    /\ IF raster = "nofile"
       THEN /\ error' = "OpenError"
            /\ pc' = "exited"
            /\ wrapper' = NoWrapper
            /\ UNCHANGED << channels, inputfile, nloads, nreads >>
       ELSE LET got == LoadChannels(channels, loader, "open", raster,
                                    self_channel_names, self_channel_keys)
            IN  /\ inputfile' = "open"
                /\ nloads' = nloads + 1
                /\ nreads' = nreads + got.reads
                /\ channels' = got.channels
                /\ error' = got.error
                /\ IF got.error = "none"
                   THEN /\ pc' = "body"
                        /\ wrapper' = MakeWrapper(got.channels, self_channel_keys)
                   ELSE /\ pc' = "exited"
                        /\ wrapper' = NoWrapper
    /\ UNCHANGED << inputs, parsed >>

\* Lines 114-117, __exit__: closes the handle and returns None, so an
\* exception of the body goes on to the caller.
Exit(exc) ==
    /\ inputfile' = CloseHandle(inputfile)
    /\ error' = IF CloseError(inputfile) # "none" THEN CloseError(inputfile) ELSE exc
    /\ pc' = "exited"

\* The with-body ends normally.
BodyReturn ==
    /\ pc = "body"
    /\ Exit("none")
    /\ UNCHANGED << inputs, parsed, channels, wrapper, sessions, body_loads,
                    body_closed, nloads, nreads >>

\* The with-body raises.
BodyRaise ==
    /\ pc = "body"
    /\ Exit("BodyError")
    /\ UNCHANGED << inputs, parsed, channels, wrapper, sessions, body_loads,
                    body_closed, nloads, nreads >>

\* The with-body closes the handle itself (exr.inputfile.close()).
BodyClose ==
    /\ pc = "body"
    /\ body_closed' = TRUE
    /\ IF CloseError(inputfile) = "none"
       THEN /\ inputfile' = CloseHandle(inputfile)
            /\ UNCHANGED << pc, error >>
       ELSE Exit(CloseError(inputfile))
    /\ UNCHANGED << inputs, parsed, channels, wrapper, sessions,
                    body_loads, nloads, nreads >>

\* The with-body calls reader._load_channels(reader.channel_names,
\* reader.channel_keys) again; an exception of it leaves the body.
BodyLoad ==
    /\ pc = "body"
    /\ body_loads < MaxBodyLoads
    /\ body_loads' = body_loads + 1
    /\ LET got == LoadChannels(channels, loader, inputfile, raster,
                               self_channel_names, self_channel_keys)
       IN  /\ nloads' = nloads + 1
           /\ nreads' = nreads + got.reads
           /\ channels' = got.channels
           /\ IF got.error = "none"
              THEN UNCHANGED << pc, inputfile, error >>
              ELSE Exit(got.error)
    /\ UNCHANGED << inputs, parsed, wrapper, sessions, body_closed >>

NextParse == ScanChar \/ ParseReturn

SpecParse == InitParse /\ [][NextParse]_vars

Next ==
    \/ ScanChar
    \/ ParseReturn
    \/ Enter
    \/ BodyReturn
    \/ BodyRaise
    \/ BodyClose
    \/ BodyLoad

Spec == Init /\ [][Next]_vars

(***************************************************************************)
(* What the documentation names: the layer of each single-character code   *)
(* (class docstring, lines 44-54), the groups of the two prefixes and the  *)
(* components of the four suffixes (lines 55-59).                          *)
(***************************************************************************)
DocLayer(code) ==
    CASE code = "c" -> ".IndexOB.X"
      [] code = "i" -> ".IndexMA.X"
      [] code = "r" -> ".Combined.R"
      [] code = "g" -> ".Combined.G"
      [] code = "b" -> ".Combined.B"
      [] code = "a" -> ".Combined.A"
      [] code = "d" -> ".Depth.Z"

DocGroup(prefix) == IF prefix = "n" THEN ".Normal" ELSE ".Vector"

DocComponent(suffix) ==
    CASE suffix = "x" -> ".X"
      [] suffix = "y" -> ".Y"
      [] suffix = "z" -> ".Z"
      [] suffix = "w" -> ".W"

\* The parser has returned.
Parsed == pc # "scan"

\* The indices of the returned pairs that were appended while the character
\* at input position i was read.
PairsAt(i) == {k \in 1..Len(scan.at) : scan.at[k] = i}

\* A prefix character is pending when the character at position i is read.
AfterPrefix(i) == i > 1 /\ channel_string[i - 1] \in two_char_expr_starts

\* Every character of the channel string is a single-character code.
AllSingleCodes == \A i \in 1..Len(channel_string) : channel_string[i] \in SingleCodes

(***************************************************************************)
(* C1.  As claimed: every single-character code that is followed by        *)
(* another character yields exactly one pair, appended when that following *)
(* character is read, bound to the code's layer and keyed by the following *)
(* character.                                                              *)
(***************************************************************************)
C1_KeyIsFollowingChar ==
    Parsed =>
        \A i \in 1..(Len(channel_string) - 1) :
            channel_string[i] \in SingleCodes =>
                Cardinality({k \in PairsAt(i + 1) :
                    /\ self_channel_names[k] = view_layer_name \o DocLayer(channel_string[i])
                    /\ self_channel_keys[k] = channel_string[i + 1]}) = 1

(***************************************************************************)
(* C1, amended.  Every single-character code, followed by another          *)
(* character or not, yields exactly one pair, appended when the code       *)
(* itself is read and bound to the code's layer; its key is the code       *)
(* character itself, or the pending prefix character plus the code         *)
(* character when the code comes right after n or f.                       *)
(***************************************************************************)
C1_KeyIsCodeItself ==
    Parsed =>
        \A i \in 1..Len(channel_string) :
            channel_string[i] \in SingleCodes =>
                /\ Cardinality(PairsAt(i)) = 1
                /\ \A k \in PairsAt(i) :
                    /\ self_channel_names[k] = view_layer_name \o DocLayer(channel_string[i])
                    /\ self_channel_keys[k] =
                         IF AfterPrefix(i)
                         THEN channel_string[i - 1] \o channel_string[i]
                         ELSE channel_string[i]

\* 'rg' has been parsed: r, followed by another character, is keyed "r".
C1_Witness ==
    /\ Parsed
    /\ \E i \in 1..(Len(channel_string) - 1) :
        /\ channel_string[i] \in SingleCodes
        /\ channel_string[i + 1] # channel_string[i]
        /\ ~AfterPrefix(i)
        /\ \E k \in PairsAt(i) : self_channel_keys[k] = channel_string[i]

(***************************************************************************)
(* C2.  As claimed: a channel string of N >= 1 single-character codes      *)
(* returns N - 1 pairs.                                                    *)
(***************************************************************************)
C2_TrailingCodeDropped ==
    (Parsed /\ AllSingleCodes /\ Len(channel_string) >= 1) =>
        /\ Len(self_channel_keys) = Len(channel_string) - 1
        /\ Len(self_channel_names) = Len(channel_string) - 1

(***************************************************************************)
(* C2, amended.  A channel string of N >= 1 single-character codes         *)
(* returns exactly N pairs: the last code is resolved like the others      *)
(* ('rgb' returns 3 pairs), and the scan always reaches its return.        *)
(***************************************************************************)
C2_EveryCodeResolved ==
    /\ (Parsed /\ AllSingleCodes /\ Len(channel_string) >= 1) =>
        /\ Len(self_channel_keys) = Len(channel_string)
        /\ Len(self_channel_names) = Len(channel_string)
        /\ PairsAt(Len(channel_string)) # {}
    /\ pc = "scan" => (ENABLED ScanChar \/ ENABLED ParseReturn)

\* 'rgb' has been parsed into three pairs.
C2_Witness ==
    /\ Parsed
    /\ channel_string = <<"r", "g", "b">>
    /\ Len(self_channel_keys) = 3

(***************************************************************************)
(* C3.  Each single-character code read with no prefix pending is exposed  *)
(* under its own character and bound to the layer the docstring gives it;  *)
(* 'rgb' yields the keys r, g, b bound to Combined.R, Combined.G and       *)
(* Combined.B, in that order.                                              *)
(***************************************************************************)
C3_DocumentedKeys ==
    Parsed =>
        /\ \A i \in 1..Len(channel_string) :
            (channel_string[i] \in SingleCodes /\ ~AfterPrefix(i)) =>
                \E k \in 1..Len(self_channel_keys) :
                    /\ self_channel_keys[k] = channel_string[i]
                    /\ self_channel_names[k] = view_layer_name \o DocLayer(channel_string[i])
                    /\ scan.at[k] = i
        /\ channel_string = <<"r", "g", "b">> =>
            /\ self_channel_keys = <<"r", "g", "b">>
            /\ self_channel_names = << view_layer_name \o ".Combined.R",
                                       view_layer_name \o ".Combined.G",
                                       view_layer_name \o ".Combined.B" >>

\* 'rgb' has been parsed with the default view layer.
C3_Witness ==
    /\ Parsed
    /\ channel_string = <<"r", "g", "b">>
    /\ view_layer_name = "BAT_ViewLayer"
    /\ self_channel_names[1] = "BAT_ViewLayer.Combined.R"

(***************************************************************************)
(* C4.  A prefix n or f immediately followed by x, y, z or w yields        *)
(* exactly one pair: the view layer name, .Normal or .Vector, and the      *)
(* upper-case component, keyed by the two characters.                      *)
(***************************************************************************)
C4_TwoCharacterCodes ==
    Parsed =>
        /\ \A i \in 1..(Len(channel_string) - 1) :
            (channel_string[i] \in two_char_expr_starts
             /\ channel_string[i + 1] \in SuffixChars) =>
                /\ Cardinality(PairsAt(i + 1)) = 1
                /\ PairsAt(i) = {}
                /\ \A k \in PairsAt(i + 1) :
                    /\ self_channel_names[k] =
                         view_layer_name \o DocGroup(channel_string[i])
                                         \o DocComponent(channel_string[i + 1])
                    /\ self_channel_keys[k] = channel_string[i] \o channel_string[i + 1]
        /\ (channel_string = <<"n", "x">> /\ view_layer_name = "VL") =>
            /\ self_channel_names = <<"VL.Normal.X">>
            /\ self_channel_keys = <<"nx">>
        /\ (channel_string = <<"n", "x", "n", "y">> /\ view_layer_name = "VL") =>
            /\ self_channel_names = <<"VL.Normal.X", "VL.Normal.Y">>
            /\ self_channel_keys = <<"nx", "ny">>

\* 'nxny' has been parsed with the view layer VL.
C4_Witness ==
    /\ Parsed
    /\ channel_string = <<"n", "x", "n", "y">>
    /\ view_layer_name = "VL"
    /\ Len(self_channel_keys) = 2

(***************************************************************************)
(* Steps of the loader, as the formulas below name them.                   *)
(***************************************************************************)
\* This step is a call of _load_channels.
LoadStep == nloads' # nloads

\* The handle the call reads from: __enter__ has just opened it (line 93),
\* a call in the with-body finds it as the body left it.
HandleAtLoad == IF pc = "body" THEN inputfile ELSE "open"

\* Every key of the call's arguments is a key of self.channels already.
AllKeysLoaded ==
    \A k \in 1..Len(self_channel_keys) : self_channel_keys[k] \in DOMAIN channels

\* A layer path of the call's arguments is no channel of the file.
SomePathMissing ==
    \E k \in 1..Len(self_channel_names) :
        self_channel_names[k] \notin RasterLayers(raster)

(***************************************************************************)
(* C5.  A call of _load_channels whose keys are all keys of self.channels  *)
(* already makes no call of inputfile.channels and leaves self.channels    *)
(* as it was.                                                              *)
(***************************************************************************)
C5_LoadIdempotent ==
    [][(LoadStep /\ AllKeysLoaded) => (nreads' = nreads /\ channels' = channels)]_vars

(***************************************************************************)
(* C6.  When a with statement has ended, in whatever way, after its        *)
(* __enter__ opened the file, the handle is closed.                        *)
(***************************************************************************)
C6_HandleClosedOnEveryExit ==
    (pc = "exited" /\ error # "OpenError") => inputfile = "closed"

(***************************************************************************)
(* C7.  A call of _load_channels that asks an open handle for a layer path *)
(* the file does not hold ends with the missing-channel error, which       *)
(* leaves the with statement, and self.channels is what it was before the  *)
(* call.                                                                   *)
(***************************************************************************)
C7_MissingChannelLeavesMapping ==
    [][(LoadStep /\ HandleAtLoad = "open" /\ SomePathMissing) =>
          /\ error' = "MissingChannel"
          /\ pc' = "exited"
          /\ channels' = channels]_vars

\* A load has failed on a request that also names a layer the file holds.
C7_Witness ==
    /\ error = "MissingChannel"
    /\ pc = "exited"
    /\ nreads >= 1
    /\ \E k \in 1..Len(self_channel_names) :
        /\ self_channel_names[k] \in RasterLayers(raster)
        /\ self_channel_keys[k] \notin DOMAIN channels

(***************************************************************************)
(* C8.  Inside the with-body the object __enter__ returned has, for every  *)
(* parsed key, an attribute of that name holding the value self.channels   *)
(* holds under the key, and its channel_names is the parsed key list.      *)
(***************************************************************************)
C8_WrapperExposesEveryKey ==
    pc = "body" =>
        /\ wrapper.made
        /\ wrapper.channel_names = self_channel_keys
        /\ \A k \in 1..Len(self_channel_keys) :
            /\ self_channel_keys[k] \in DOMAIN wrapper.attrs
            /\ self_channel_keys[k] \in DOMAIN channels
            /\ wrapper.attrs[self_channel_keys[k]] = channels[self_channel_keys[k]]
            /\ Len(wrapper.attrs[self_channel_keys[k]].items) = Pixels

\* __enter__ has returned an object for 'rgb'.
C8_Witness ==
    /\ pc = "body"
    /\ channel_string = <<"r", "g", "b">>
    /\ DOMAIN wrapper.attrs = {"r", "g", "b"}

(***************************************************************************)
(* C9.  As claimed: a character outside the thirteen the scan names        *)
(* appends no pair, whatever precedes it.                                  *)
(***************************************************************************)
C9_UnrecognizedIgnored ==
    \A i \in 1..idx : channel_string[i] \in OtherChars => PairsAt(i) = {}

(***************************************************************************)
(* C9, amended.  A character outside the thirteen the scan names appends   *)
(* no pair when no prefix is pending; read right after n or f it completes *)
(* that prefix: exactly one pair is appended, the bare .Normal or .Vector  *)
(* keyed by the prefix character plus that character.  The scan goes on    *)
(* to its return in both cases.                                            *)
(***************************************************************************)
C9_UnrecognizedCompletesPrefix ==
    /\ \A i \in 1..idx :
        channel_string[i] \in OtherChars =>
            IF AfterPrefix(i)
            THEN /\ Cardinality(PairsAt(i)) = 1
                 /\ \A k \in PairsAt(i) :
                     /\ scan.channel_names[k] = DocGroup(channel_string[i - 1])
                     /\ scan.channel_keys[k] = channel_string[i - 1] \o channel_string[i]
            ELSE PairsAt(i) = {}
    /\ pc = "scan" => (ENABLED ScanChar \/ ENABLED ParseReturn)

\* 'nq' has been parsed into the pair (.Normal, 'nq').
C9_Witness ==
    /\ Parsed
    /\ channel_string = <<"n", "q">>
    /\ self_channel_keys = <<"nq">>

(***************************************************************************)
(* C10.  As claimed: a prefix character with no x, y, z or w after it      *)
(* before the string ends appends no pair: none when it is read, and none  *)
(* keyed by it plus the next character.                                    *)
(***************************************************************************)
C10_PrefixWithoutSuffixDropped ==
    Parsed =>
        \A i \in 1..Len(channel_string) :
            (/\ channel_string[i] \in two_char_expr_starts
             /\ \A j \in (i + 1)..Len(channel_string) : channel_string[j] \notin SuffixChars) =>
                /\ PairsAt(i) = {}
                /\ \A k \in PairsAt(i + 1) :
                    self_channel_keys[k] # channel_string[i] \o channel_string[i + 1]

(***************************************************************************)
(* C10, amended.  A prefix character that is the last character of the     *)
(* string, or that is immediately followed by another prefix character,    *)
(* appends no pair (and the scan returns); a prefix character followed by  *)
(* any other character, x, y, z, w or not, appends exactly one pair when   *)
(* that character is read, keyed by the two characters.                    *)
(***************************************************************************)
C10_PrefixDroppedAtEndOrBeforePrefix ==
    Parsed =>
        \A i \in 1..Len(channel_string) :
            channel_string[i] \in two_char_expr_starts =>
                /\ PairsAt(i) = {}
                /\ IF i = Len(channel_string)
                      \/ channel_string[i + 1] \in two_char_expr_starts
                   THEN PairsAt(i + 1) = {}
                   ELSE /\ Cardinality(PairsAt(i + 1)) = 1
                        /\ \A k \in PairsAt(i + 1) :
                            self_channel_keys[k] = channel_string[i] \o channel_string[i + 1]

\* 'nf' and a string ending in a prefix have been parsed: nothing comes of
\* the overwritten n nor of the last prefix.
C10_Witness ==
    /\ Parsed
    /\ Len(channel_string) >= 2
    /\ channel_string[Len(channel_string)] \in two_char_expr_starts
    /\ channel_string[Len(channel_string) - 1] \in two_char_expr_starts
    /\ self_channel_keys = <<>>

(***************************************************************************)
(* What each input position resolves to, read off the channel string       *)
(* alone.                                                                  *)
(***************************************************************************)
\* The positions whose character finishes a code: any character but n and f
\* right after a prefix character, and a single-character code elsewhere.
ResolvedPositions ==
    {i \in 1..Len(channel_string) :
        /\ channel_string[i] \notin two_char_expr_starts
        /\ (AfterPrefix(i) \/ channel_string[i] \in SingleCodes)}

\* The key of the pair appended at a resolved position.
KeyAt(i) ==
    IF AfterPrefix(i)
    THEN channel_string[i - 1] \o channel_string[i]
    ELSE channel_string[i]

\* Every (key, selector) pair the scan can append: a single-character code
\* with its layer, and a prefix p with any character ch but n and f: the
\* layer of ch when ch is a single-character code, the group of p with the
\* component of ch when ch is x, y, z or w, the bare group of p otherwise.
KeyTable ==
    {[key |-> c, selector |-> DocLayer(c)] : c \in SingleCodes}
    \cup
    {[key |-> p \o ch,
      selector |-> IF ch \in SingleCodes THEN DocLayer(ch)
                   ELSE IF ch \in SuffixChars THEN DocGroup(p) \o DocComponent(ch)
                   ELSE DocGroup(p)] :
        p \in two_char_expr_starts, ch \in Alphabet \ two_char_expr_starts}

(***************************************************************************)
(* C11.  The returned pairs are in the order of the input positions that   *)
(* resolved them, and there is exactly one pair for every resolved         *)
(* position, so that a code resolved k times gives k pairs.                *)
(***************************************************************************)
C11_InputOrderDuplicatesKept ==
    Parsed =>
        /\ \A k \in 1..(Len(scan.at) - 1) : scan.at[k] < scan.at[k + 1]
        /\ {scan.at[k] : k \in 1..Len(scan.at)} = ResolvedPositions
        /\ Len(self_channel_keys) = Cardinality(ResolvedPositions)
        /\ Len(self_channel_names) = Cardinality(ResolvedPositions)
        /\ \A k \in 1..Len(self_channel_keys) : self_channel_keys[k] = KeyAt(scan.at[k])

\* A string that resolves the same code twice has been parsed into two
\* pairs with the same key.
C11_Witness ==
    /\ Parsed
    /\ \E j, k \in 1..Len(self_channel_keys) :
        /\ j < k
        /\ self_channel_keys[j] = self_channel_keys[k]
        /\ self_channel_names[j] = self_channel_names[k]

(***************************************************************************)
(* C12.  The key determines the layer path: two pairs of one parse with    *)
(* the same key have the same path, and in every parse the path of a key   *)
(* is the view layer name followed by the one selector that key has.       *)
(***************************************************************************)
C12_KeyDeterminesPath ==
    Parsed =>
        /\ \A j, k \in 1..Len(self_channel_keys) :
            self_channel_keys[j] = self_channel_keys[k]
                => self_channel_names[j] = self_channel_names[k]
        /\ \A k \in 1..Len(self_channel_keys) :
            LET rows == {e \in KeyTable : e.key = self_channel_keys[k]}
            IN  /\ Cardinality(rows) = 1
                /\ \A e \in rows : self_channel_names[k] = view_layer_name \o e.selector

\* 'rr' has been parsed: the key r twice, bound to the same path.
C12_Witness ==
    /\ Parsed
    /\ channel_string = <<"r", "r">>
    /\ self_channel_keys = <<"r", "r">>
    /\ self_channel_names[1] = self_channel_names[2]

(***************************************************************************)
(* C13.  A with statement whose body has closed the handle itself ends     *)
(* with the handle closed and with no error of the second close: what      *)
(* leaves the statement is nothing, or the body's own exception.           *)
(***************************************************************************)
C13_SecondCloseDoesNotRaise ==
    (pc = "exited" /\ body_closed) =>
        /\ inputfile = "closed"
        /\ error \in {"none", "BodyError", "ClosedFile"}
        /\ (body_loads = 0 /\ error # "BodyError") => error = "none"

\* The body closed the handle, ended normally, and __exit__ closed it again.
C13_Witness ==
    /\ pc = "exited"
    /\ body_closed
    /\ inputfile = "closed"
    /\ error = "none"

(***************************************************************************)
(* C14.  As claimed: every returned key is a single-character code, or n   *)
(* or f followed by x, y, z or w; the path of a single-character key is    *)
(* the view layer name and that code's layer, the path of a two-character  *)
(* key is the view layer name, the group of its prefix and the component   *)
(* of its suffix.                                                          *)
(***************************************************************************)
C14_WellFormedOutput ==
    Parsed =>
        \A k \in 1..Len(self_channel_keys) :
            \/ \E c \in SingleCodes :
                /\ self_channel_keys[k] = c
                /\ self_channel_names[k] = view_layer_name \o DocLayer(c)
            \/ \E p \in two_char_expr_starts, x \in SuffixChars :
                /\ self_channel_keys[k] = p \o x
                /\ self_channel_names[k] = view_layer_name \o DocGroup(p) \o DocComponent(x)

(***************************************************************************)
(* C14, amended.  Every returned key is a single-character code, or n or f *)
(* followed by any character but n and f.  The path is the view layer name *)
(* followed by: the code's layer for a single-character key; the group and *)
(* the component for a prefix with x, y, z or w; the layer of the code for *)
(* a prefix with a single-character code; the bare group for a prefix with *)
(* any other character.                                                    *)
(***************************************************************************)
C14_OutputShapes ==
    Parsed =>
        \A k \in 1..Len(self_channel_keys) :
            \/ \E c \in SingleCodes :
                /\ self_channel_keys[k] = c
                /\ self_channel_names[k] = view_layer_name \o DocLayer(c)
            \/ \E p \in two_char_expr_starts, x \in SuffixChars :
                /\ self_channel_keys[k] = p \o x
                /\ self_channel_names[k] = view_layer_name \o DocGroup(p) \o DocComponent(x)
            \/ \E p \in two_char_expr_starts, c \in SingleCodes :
                /\ self_channel_keys[k] = p \o c
                /\ self_channel_names[k] = view_layer_name \o DocLayer(c)
            \/ \E p \in two_char_expr_starts, o \in OtherChars :
                /\ self_channel_keys[k] = p \o o
                /\ self_channel_names[k] = view_layer_name \o DocGroup(p)

\* A parse has returned a single-character key, and a prefix keyed with a
\* character that is none of x, y, z, w.
C14_Witness ==
    /\ Parsed
    /\ \E j, k \in 1..Len(self_channel_keys) :
        /\ self_channel_keys[j] \in SingleCodes
        /\ \E p \in two_char_expr_starts, c \in SingleCodes \cup OtherChars :
            self_channel_keys[k] = p \o c

(***************************************************************************)
(* C15.  Whenever __enter__ is called, on a new reader or on one entered   *)
(* before, self.channels holds no key.                                     *)
(***************************************************************************)
C15_ChannelsEmptyAtEntry ==
    [][sessions' # sessions => channels = EmptyChannels]_vars

(***************************************************************************)
(* C16.  While the with-body runs, that is after every load that has       *)
(* returned, the first one or a later one, self.channels holds under every *)
(* parsed key the conversion of the bytes of the layer path paired with    *)
(* that key (its last occurrence, for a repeated key).                     *)
(***************************************************************************)
\* The last index of the key of index k in the parsed key list.
LastIndexOfKey(k) ==
    CHOOSE j \in 1..Len(self_channel_keys) :
        /\ self_channel_keys[j] = self_channel_keys[k]
        /\ \A i \in (j + 1)..Len(self_channel_keys) :
            self_channel_keys[i] # self_channel_keys[k]

C16_BuffersStayWithTheirKeys ==
    pc = "body" =>
        \A k \in 1..Len(self_channel_keys) :
            /\ self_channel_keys[k] \in DOMAIN channels
            /\ channels[self_channel_keys[k]] =
                 Convert(loader, RasterBytes(self_channel_names[LastIndexOfKey(k)]))

\* A second load of several different layers has returned.
C16_Witness ==
    /\ pc = "body"
    /\ nloads >= 2
    /\ nreads >= 2
    /\ \E j, k \in 1..Len(self_channel_names) :
        /\ self_channel_names[j] # self_channel_names[k]
        /\ channels[self_channel_keys[j]] # channels[self_channel_keys[k]]

(***************************************************************************)
(* C17.  A prefix character read while another is pending replaces it and  *)
(* appends nothing: for prefixes p, q and s among x, y, z, w, the          *)
(* characters p q s give one pair, keyed q s and bound to the group of q   *)
(* with the component of s; the string 'nfx' returns only                  *)
(* (<prefix>.Vector.X, 'fx').                                              *)
(***************************************************************************)
C17_LaterPrefixWins ==
    Parsed =>
        /\ \A i \in 1..(Len(channel_string) - 2) :
            (/\ channel_string[i] \in two_char_expr_starts
             /\ channel_string[i + 1] \in two_char_expr_starts
             /\ channel_string[i + 2] \in SuffixChars) =>
                /\ PairsAt(i) = {}
                /\ PairsAt(i + 1) = {}
                /\ Cardinality(PairsAt(i + 2)) = 1
                /\ \A k \in PairsAt(i + 2) :
                    /\ self_channel_keys[k] = channel_string[i + 1] \o channel_string[i + 2]
                    /\ self_channel_names[k] =
                         view_layer_name \o DocGroup(channel_string[i + 1])
                                         \o DocComponent(channel_string[i + 2])
        /\ channel_string = <<"n", "f", "x">> =>
            /\ self_channel_keys = <<"fx">>
            /\ self_channel_names = <<view_layer_name \o ".Vector.X">>

\* 'nfx' has been parsed.
C17_Witness ==
    /\ Parsed
    /\ channel_string = <<"n", "f", "x">>
    /\ Len(self_channel_keys) = 1

(***************************************************************************)
(* C18.  At every point of the scan the two lists have the same length,    *)
(* every character read has appended at most one pair, and so the lists    *)
(* are no longer than what has been read; the returned lists have the same *)
(* length, at most that of the channel string.                             *)
(***************************************************************************)
C18_OnePairPerCharacterAtMost ==
    /\ Len(scan.channel_names) = Len(scan.channel_keys)
    /\ Len(scan.at) = Len(scan.channel_names)
    /\ \A i \in 1..Len(channel_string) : Cardinality(PairsAt(i)) <= 1
    /\ \A k \in 1..Len(scan.at) : scan.at[k] \in 1..idx
    /\ Len(scan.channel_keys) <= idx
    /\ Parsed =>
        /\ Len(self_channel_names) = Len(self_channel_keys)
        /\ Len(self_channel_keys) = Len(scan.channel_keys)
        /\ Len(self_channel_keys) <= Len(channel_string)

\* A string of three characters has been parsed into three pairs.
C18_Witness ==
    /\ Parsed
    /\ Len(channel_string) = 3
    /\ Len(self_channel_keys) = 3
    /\ Len(self_channel_names) = 3

(***************************************************************************)
(* C19.  Between the iterations of the scan, and after the last, the       *)
(* pending prefix character is set exactly when the pending selector is,   *)
(* and the selector is then the bare group of that prefix; so a pair       *)
(* appended with no prefix pending is the single-character code read in    *)
(* that same iteration, with its own layer.                                *)
(***************************************************************************)
C19_ScannerState ==
    /\ scan.char_store \in {""} \cup two_char_expr_starts
    /\ (scan.char_store # "") <=> (scan.channel_selector # "")
    /\ scan.char_store # "" => scan.channel_selector = DocGroup(scan.char_store)
    /\ scan.char_store # "" <=> (idx >= 1 /\ channel_string[idx] \in two_char_expr_starts)
    /\ \A k \in 1..Len(scan.at) :
        ~AfterPrefix(scan.at[k]) =>
            /\ channel_string[scan.at[k]] \in SingleCodes
            /\ scan.channel_keys[k] = channel_string[scan.at[k]]
            /\ scan.channel_names[k] = DocLayer(channel_string[scan.at[k]])

\* The scan stands between two iterations with a prefix pending, after it
\* has appended a pair.
C19_Witness ==
    /\ pc = "scan"
    /\ idx < Len(channel_string)
    /\ scan.char_store = "f"
    /\ scan.channel_selector = ".Vector"
    /\ Len(scan.channel_keys) >= 1

====
